---- MODULE Spec2Model ----
(***************************************************************************)
(* Wire-protocol layer of the RedisClient crate.                           *)
(*                                                                         *)
(*   src/src/types.rs   Value, RedisError, ToRedisArgs                     *)
(*   src/src/cmd.rs     Cmd, encode_commands                               *)
(*   src/src/parser.rs  Parser, parse_redis_value                          *)
(*                                                                         *)
(* A byte is a number 0..255, a byte string (Vec<u8>, String, &str) is a   *)
(* sequence of bytes.  Two specifications share the module: SpecCmd runs   *)
(* the command builder, SpecParser runs one Parser over a byte source.     *)
(***************************************************************************)
EXTENDS Integers, Sequences, FiniteSets, TLC

VARIABLES
    args,         \* Cmd.args: sequence of Arg
    cursor,       \* Cmd.cursor: Option<u64>, <<>> = None, <<c>> = Some(c)
    is_ignored,   \* Cmd.is_ignored
    ret,          \* what the last call on the Cmd returned
    built,        \* history: what each builder call appended, in call order
    lastArg,      \* history: <<v>> when the last builder call was arg(v), else <<>>
    argCalls,     \* history: number of arg calls made
    cursorCalls,  \* history: number of cursor_arg calls made
    reader,       \* Parser.reader: the byte source and its position
    results,      \* what the parse_value calls made so far returned
    replies       \* history: the replies the source was filled with

cmdVars == <<args, cursor, is_ignored, ret, built, lastArg, argCalls, cursorCalls>>
parserVars == <<reader, results, replies>>
vars == <<args, cursor, is_ignored, ret, built, lastArg, argCalls, cursorCalls,
          reader, results, replies>>

(***************************************************************************)
(* Bounds.                                                                 *)
(***************************************************************************)
\* builder calls (arg, cursor_arg) made on one Cmd
MaxCalls == 2
\* replies written into one source
MaxReplies == 2
\* parse_value calls made on one Parser
MaxParses == 3
\* largest number of bytes the source hands out in one read call
MaxChunk == 2
\* elements of the arrays the sources are filled with
MaxItems == 2

(***************************************************************************)
(* Bytes and text.                                                         *)
(***************************************************************************)
CRLF == <<13, 10>>

Min(a, b) == IF a < b THEN a ELSE b

RECURSIVE Flatten(_)
\* concatenation of a sequence of sequences
Flatten(ss) == IF ss = <<>> THEN <<>> ELSE Head(ss) \o Flatten(Tail(ss))

RECURSIVE to_string(_)
\* Display of an integer: decimal digits, no leading zeros, '-' when negative
to_string(n) ==
    IF n < 0 THEN <<45>> \o to_string(0 - n)
    ELSE IF n < 10 THEN <<48 + n>>
    ELSE to_string(n \div 10) \o <<48 + (n % 10)>>

\* Display of a bool
bool_to_string(b) == IF b THEN <<116, 114, 117, 101>> ELSE <<102, 97, 108, 115, 101>>

(***************************************************************************)
(* types.rs: ToRedisArgs.  An argument value is a record                   *)
(*   [k |-> kind, n |-> number, s |-> bytes, elem |-> kind, items |-> seq] *)
(* k: "int" (i8..i64, u16..u64, isize, usize), "u8", "bool", "str"         *)
(* (String, &String, &str), "opt" (Option<T>: items is <<>> or <<v>>),     *)
(* "vec" (Vec<T>, &[T], &[T; N]: elem is the kind of T), "tuple".          *)
(***************************************************************************)
Scalar(k, n) == [k |-> k, n |-> n, s |-> <<>>, elem |-> "", items |-> <<>>]
I64(n) == Scalar("int", n)
U8(n) == Scalar("u8", n)
Bool(b) == Scalar("bool", IF b THEN 1 ELSE 0)
Str(s) == [k |-> "str", n |-> 0, s |-> s, elem |-> "", items |-> <<>>]
None == [k |-> "opt", n |-> 0, s |-> <<>>, elem |-> "", items |-> <<>>]
Some(v) == [k |-> "opt", n |-> 0, s |-> <<>>, elem |-> v.k, items |-> <<v>>]
Vec(elem, items) == [k |-> "vec", n |-> 0, s |-> <<>>, elem |-> elem, items |-> items]
Tuple(items) == [k |-> "tuple", n |-> 0, s |-> <<>>, elem |-> "", items |-> items]

RECURSIVE to_redis_args(_)
RECURSIVE make_arg_vec(_, _)

\* a conversion that copies the byte instead of printing it
u8_verbatim(n) == << <<n>> >>

\* impl ToRedisArgs for u8: to_redis_args
u8_to_redis_args(n) == << to_string(n) >>

\* the trait's make_arg_vec, and u8's override of it
make_arg_vec(elem, items) ==
    IF elem = "u8" THEN << [i \in 1..Len(items) |-> items[i].n] >>
    ELSE IF items = <<>> THEN <<>>
    ELSE to_redis_args(Head(items)) \o make_arg_vec(elem, Tail(items))

to_redis_args(v) ==
    CASE v.k = "int" -> << to_string(v.n) >>
      [] v.k = "u8" -> u8_to_redis_args(v.n)
      [] v.k = "bool" -> << bool_to_string(v.n = 1) >>
      [] v.k = "str" -> << v.s >>
      [] v.k = "opt" -> IF v.items = <<>> THEN <<>> ELSE to_redis_args(v.items[1])
      [] v.k = "vec" -> make_arg_vec(v.elem, v.items)
      [] v.k = "tuple" -> Flatten([i \in 1..Len(v.items) |-> to_redis_args(v.items[i])])

RECURSIVE is_single_arg(_)

\* the trait's is_single_vec_arg, and u8's override of it
is_single_vec_arg(elem, items) ==
    IF elem = "u8" THEN TRUE
    ELSE Len(items) = 1 /\ is_single_arg(items[1])

is_single_arg(v) ==
    CASE v.k = "opt" -> IF v.items = <<>> THEN FALSE ELSE is_single_arg(v.items[1])
      [] v.k = "vec" -> is_single_vec_arg(v.elem, v.items)
      [] v.k = "tuple" -> Len(v.items) = 1
      [] OTHER -> TRUE

(***************************************************************************)
(* cmd.rs: Arg, countdigits, bulklen, encode_commands.                     *)
(***************************************************************************)
Simple(b) == [tag |-> "Simple", v |-> b]
Cursor == [tag |-> "Cursor", v |-> <<>>]

RECURSIVE countdigits_loop(_, _)
countdigits_loop(v, cnt) ==
    IF v > 0
    THEN LET c1 == IF v < 10 THEN cnt + 1
                   ELSE IF v < 100 THEN cnt + 2
                   ELSE IF v < 1000 THEN cnt + 3
                   ELSE IF v < 10000 THEN cnt + 4
                   ELSE cnt
         IN countdigits_loop(v \div 10000, c1 + 4)
    ELSE cnt

countdigits(v) == countdigits_loop(v, 0)

bulklen(len) == 1 + countdigits(len) + 2 + len + 2

\* the capacity encode_commands reserves before writing
RECURSIVE totlen_loop(_, _, _)
totlen_loop(as, cur, acc) ==
    IF as = <<>> THEN acc
    ELSE totlen_loop(Tail(as), cur,
                     acc + bulklen(IF Head(as).tag = "Cursor"
                                   THEN countdigits(cur)
                                   ELSE Len(Head(as).v)))

totlen(as, cur) == totlen_loop(as, cur, 1 + countdigits(Len(as)) + 2)

\* an encode that leaves out the terminator of the block
encode_unterminated(item) == <<36>> \o to_string(Len(item)) \o CRLF \o item

\* the closure encode of encode_commands
encode(item) == <<36>> \o to_string(Len(item)) \o CRLF \o item \o CRLF

RECURSIVE encode_items(_, _)
encode_items(as, cur) ==
    IF as = <<>> THEN <<>>
    ELSE (IF Head(as).tag = "Cursor" THEN encode(to_string(cur)) ELSE encode(Head(as).v))
         \o encode_items(Tail(as), cur)

encode_commands(as, cur) ==
    <<42>> \o to_string(Len(as)) \o CRLF \o encode_items(as, cur)

unwrap_or(opt, d) == IF opt = <<>> THEN d ELSE opt[1]

in_scan_mode == cursor # <<>>

(***************************************************************************)
(* types.rs: Value, ErrorKind, RedisError.                                 *)
(* A Value is a record [t |-> variant, n |-> i64, b |-> bytes, items |->   *)
(* sequence of Value]; an Option<String> is <<>> or <<bytes>>.             *)
(***************************************************************************)
Nil == [t |-> "Nil", n |-> 0, b |-> <<>>, items |-> <<>>]
Okay == [t |-> "Okay", n |-> 0, b |-> <<>>, items |-> <<>>]
IntV(n) == [t |-> "Int", n |-> n, b |-> <<>>, items |-> <<>>]
Data(b) == [t |-> "Data", n |-> 0, b |-> b, items |-> <<>>]
Status(line) == [t |-> "Status", n |-> 0, b |-> line, items |-> <<>>]
Bulk(items) == [t |-> "Bulk", n |-> 0, b |-> <<>>, items |-> items]
\* stands where a call returned no Value
NoValue == [t |-> "-", n |-> 0, b |-> <<>>, items |-> <<>>]

Kind(name) == [name |-> name, code |-> <<>>]
ExtensionError(code) == [name |-> "ExtensionError", code |-> code]

\* From<(ErrorKind, &'static str)> and From<(ErrorKind, &'static str, String)>
RedisError(kind, desc, detail) == [kind |-> kind, desc |-> desc, detail |-> detail]
\* From<io::Error>; the detail is the description the transport gives
IoErrorOf(description) ==
    RedisError(Kind("IoError"), "An internal IO error occurred", <<description>>)
\* From<FromUtf8Error>; its description is "invalid utf-8"
Utf8ErrorOf(description) ==
    RedisError(Kind("TypeError"), "Invalid UTF-8", <<description>>)
\* stands where a call returned no error
NoError == RedisError(Kind("-"), "", <<>>)

InvalidUtf8Description == <<105, 110, 118, 97, 108, 105, 100, 32, 117, 116, 102, 45, 56>>
TransportDescription == <<105, 111>>

\* RedisResult<T> with the reader position the call left behind
Ok(v, p) == [ok |-> TRUE, val |-> v, err |-> NoError, pos |-> p]
Err(e, p) == [ok |-> FALSE, val |-> NoValue, err |-> e, pos |-> p]

(***************************************************************************)
(* parser.rs: the byte source.  rd = [bytes, chunk, failAt]: the bytes it  *)
(* holds, the most it hands out per read call, and the offset from which   *)
(* on its read calls fail (-1: never).  p is the number of bytes taken.    *)
(***************************************************************************)
\* Read::read into a buffer of k bytes: [io |-> failed, n |-> bytes read]
reader_read(rd, p, k) ==
    IF rd.failAt >= 0 /\ p >= rd.failAt THEN [io |-> TRUE, n |-> 0]
    ELSE [io |-> FALSE, n |-> Min(Min(k, rd.chunk), Len(rd.bytes) - p)]

\* the rest of read_byte, r being what Read::read returned
read_byte_of(rd, p, r) ==
    IF r.io THEN Err(IoErrorOf(TransportDescription), p)
    ELSE IF r.n < 1
         THEN Err(RedisError(Kind("ResponseError"), "Could not read enough bytes", <<>>), p)
         ELSE Ok(rd.bytes[p + 1], p + 1)

read_byte(rd, p) == read_byte_of(rd, p, reader_read(rd, p, 1))

\* try!(r) followed by Rest of what r holds
Try(r, Rest(_)) == IF ~r.ok THEN r ELSE Rest(r)

\* r followed by Rest of it, whatever r holds
With(r, Rest(_)) == Rest(r)

expect_char(rd, p, expected) ==
    Try(read_byte(rd, p),
        LAMBDA b : IF b.val = expected THEN Ok(0, b.pos)
                   ELSE Err(RedisError(Kind("ResponseError"), "Invalid byte in Response", <<>>),
                            b.pos))

RECURSIVE read_line_loop(_, _, _)
read_line_loop(rd, p, rv) ==
    Try(read_byte(rd, p),
        LAMBDA b : IF b.val = 13
                   THEN Try(expect_char(rd, b.pos, 10), LAMBDA e : Ok(rv, e.pos))
                   ELSE IF b.val = 10 THEN Ok(rv, b.pos)
                   ELSE read_line_loop(rd, b.pos, Append(rv, b.val)))

read_line(rd, p) == read_line_loop(rd, p, <<>>)

InRange(s, i, lo, hi) == i <= Len(s) /\ s[i] >= lo /\ s[i] <= hi

\* the number of bytes of the UTF-8 sequence that starts at s[i], 0 if none does
utf8_char_len(s, i) ==
    LET c == s[i]
        cont(j) == InRange(s, j, 128, 191)
    IN CASE c <= 127 -> 1
         [] c >= 194 /\ c <= 223 -> IF cont(i + 1) THEN 2 ELSE 0
         [] c = 224 -> IF InRange(s, i + 1, 160, 191) /\ cont(i + 2) THEN 3 ELSE 0
         [] (c >= 225 /\ c <= 236) \/ c = 238 \/ c = 239 ->
                       IF cont(i + 1) /\ cont(i + 2) THEN 3 ELSE 0
         [] c = 237 -> IF InRange(s, i + 1, 128, 159) /\ cont(i + 2) THEN 3 ELSE 0
         [] c = 240 -> IF InRange(s, i + 1, 144, 191) /\ cont(i + 2) /\ cont(i + 3)
                       THEN 4 ELSE 0
         [] c >= 241 /\ c <= 243 -> IF cont(i + 1) /\ cont(i + 2) /\ cont(i + 3) THEN 4 ELSE 0
         [] c = 244 -> IF InRange(s, i + 1, 128, 143) /\ cont(i + 2) /\ cont(i + 3)
                       THEN 4 ELSE 0
         [] OTHER -> 0

RECURSIVE utf8_valid_from(_, _)
\* String::from_utf8 accepts the bytes of s from index i on
utf8_valid_from(s, i) ==
    IF i > Len(s) THEN TRUE
    ELSE utf8_char_len(s, i) > 0 /\ utf8_valid_from(s, i + utf8_char_len(s, i))

from_utf8_ok(s) == utf8_valid_from(s, 1)

read_string_line(rd, p) ==
    Try(read_line(rd, p),
        LAMBDA l : IF from_utf8_ok(l.val) THEN l
                   ELSE Err(Utf8ErrorOf(InvalidUtf8Description), l.pos))

\* the number of bytes of the White_Space character that s[i..j] starts with, 0 if none
ws_len(s, i, j) ==
    LET at(k, lo, hi) == i + k <= j /\ s[i + k] >= lo /\ s[i + k] <= hi
    IN IF at(0, 9, 13) \/ at(0, 32, 32) THEN 1
       ELSE IF at(0, 194, 194) /\ (at(1, 133, 133) \/ at(1, 160, 160)) THEN 2
       ELSE IF \/ at(0, 225, 225) /\ at(1, 154, 154) /\ at(2, 128, 128)
               \/ at(0, 226, 226) /\ at(1, 128, 128)
                     /\ (at(2, 128, 138) \/ at(2, 168, 169) \/ at(2, 175, 175))
               \/ at(0, 226, 226) /\ at(1, 129, 129) /\ at(2, 159, 159)
               \/ at(0, 227, 227) /\ at(1, 128, 128) /\ at(2, 128, 128)
            THEN 3
       ELSE 0

RECURSIVE trim_start(_, _, _)
\* the first index of s[i..j] that starts no White_Space character
trim_start(s, i, j) ==
    IF i <= j /\ ws_len(s, i, j) > 0 THEN trim_start(s, i + ws_len(s, i, j), j) ELSE i

\* the number of bytes of the White_Space character that s[i..j] ends with, 0 if none
ws_len_back(s, i, j) ==
    IF ws_len(s, j, j) = 1 THEN 1
    ELSE IF j - 1 >= i /\ ws_len(s, j - 1, j) = 2 THEN 2
    ELSE IF j - 2 >= i /\ ws_len(s, j - 2, j) = 3 THEN 3
    ELSE 0

RECURSIVE trim_end(_, _, _)
\* the last index of s[i..j] that ends no White_Space character
trim_end(s, i, j) ==
    IF i <= j /\ ws_len_back(s, i, j) > 0 THEN trim_end(s, i, j - ws_len_back(s, i, j)) ELSE j

\* s[i..j]
sub_str(s, i, j) == [k \in 1..(j - i + 1) |-> s[i + k - 1]]

\* str::trim
trim(s) == sub_str(s, trim_start(s, 1, Len(s)), trim_end(s, trim_start(s, 1, Len(s)), Len(s)))

RECURSIVE strip_zeros(_)
strip_zeros(ds) == IF ds # <<>> /\ Head(ds) = 48 THEN strip_zeros(Tail(ds)) ELSE ds

RECURSIVE digits_greater(_, _)
\* digit strings of one length: a > b
digits_greater(a, b) ==
    IF a = <<>> THEN FALSE
    ELSE IF Head(a) # Head(b) THEN Head(a) > Head(b)
    ELSE digits_greater(Tail(a), Tail(b))

I64MaxDigits == <<57, 50, 50, 51, 51, 55, 50, 48, 51, 54, 56, 53, 52, 55, 55, 53, 56, 48, 55>>
I64MinDigits == <<57, 50, 50, 51, 51, 55, 50, 48, 51, 54, 56, 53, 52, 55, 55, 53, 56, 48, 56>>

RECURSIVE digits_value(_, _)
digits_value(ds, acc) ==
    IF ds = <<>> THEN acc ELSE digits_value(Tail(ds), 10 * acc + (Head(ds) - 48))

\* str::parse::<i64>: [ok |-> parsed, n |-> the number]
parse_i64(s) ==
    LET neg == s # <<>> /\ s[1] = 45
        signed == s # <<>> /\ (s[1] = 45 \/ s[1] = 43)
        ds == IF signed THEN Tail(s) ELSE s
        mag == strip_zeros(ds)
        limit == IF neg THEN I64MinDigits ELSE I64MaxDigits
    IN IF ds = <<>> \/ \E k \in DOMAIN ds : ds[k] < 48 \/ ds[k] > 57
       THEN [ok |-> FALSE, n |-> 0]
       ELSE IF Len(mag) > Len(limit) \/ (Len(mag) = Len(limit) /\ digits_greater(mag, limit))
       THEN [ok |-> FALSE, n |-> 0]
       ELSE [ok |-> TRUE, n |-> IF neg THEN 0 - digits_value(mag, 0) ELSE digits_value(mag, 0)]

\* the rest of read_int_value, v being what parse::<i64> returned
int_of(v, pos) ==
    IF v.ok THEN Ok(v.n, pos)
    ELSE Err(RedisError(Kind("ResponseError"), "Expected integer, got garbage", <<>>), pos)

read_int_value(rd, p) ==
    Try(read_string_line(rd, p),
        LAMBDA line : int_of(parse_i64(trim(line.val)), line.pos))

\* the rest of one round of the loop of read, nread being what Read::read returned
RECURSIVE read_loop(_, _, _, _, _)
read_round(rd, p, size, i, rv, nread) ==
    IF nread.io THEN Err(IoErrorOf(TransportDescription), p + i)
    ELSE IF nread.n > 0
         THEN read_loop(rd, p, size, i + nread.n,
                        rv \o [k \in 1..nread.n |-> rd.bytes[p + i + k]])
         ELSE Err(RedisError(Kind("ResponseError"), "Could not read enought bytes", <<>>),
                  p + i)

read_loop(rd, p, size, i, rv) ==
    IF i < size THEN read_round(rd, p, size, i, rv, reader_read(rd, p + i, size - i))
    ELSE Ok(rv, p + i)

read(rd, p, size) == read_loop(rd, p, size, 0, <<>>)

(***************************************************************************)
(* parser.rs: the decoder.                                                 *)
(***************************************************************************)
parse_int_value(rd, p) ==
    Try(read_int_value(rd, p), LAMBDA v : Ok(IntV(v.val), v.pos))

\* a status decoder that does not single out "OK"
parse_status_value_plain(rd, p) ==
    Try(read_string_line(rd, p), LAMBDA line : Ok(Status(line.val), line.pos))

parse_status_value(rd, p) ==
    Try(read_string_line(rd, p),
        LAMBDA line : IF line.val = <<79, 75>> THEN Ok(Okay, line.pos)
                      ELSE Ok(Status(line.val), line.pos))

\* the rest of parse_data_value once the payload rv is read
data_terminated(rd, rv, v) ==
    Try(expect_char(rd, rv.pos, 13),
        LAMBDA cr : Try(expect_char(rd, cr.pos, 10), LAMBDA lf : Ok(v, lf.pos)))

\* a bulk string decoder that wants the terminator after a negative length too
parse_data_value_nil_terminated(rd, p) ==
    Try(read_int_value(rd, p),
        LAMBDA length :
            IF length.val < 0 THEN data_terminated(rd, length, Nil)
            ELSE Try(read(rd, length.pos, length.val),
                     LAMBDA rv : data_terminated(rd, rv, Data(rv.val))))

parse_data_value(rd, p) ==
    Try(read_int_value(rd, p),
        LAMBDA length :
            IF length.val < 0 THEN Ok(Nil, length.pos)
            ELSE Try(read(rd, length.pos, length.val),
                     LAMBDA rv : data_terminated(rd, rv, Data(rv.val))))

\* the index of the last space of line, 0 if it has none
last_space(line) ==
    IF \E k \in DOMAIN line : line[k] = 32
    THEN CHOOSE k \in DOMAIN line : line[k] = 32 /\ \A j \in (k + 1)..Len(line) : line[j] # 32
    ELSE 0

\* str::splitn(2, ' '): the index of the first space of line, 0 if it has none
first_space(line) ==
    IF \E k \in DOMAIN line : line[k] = 32
    THEN CHOOSE k \in DOMAIN line : line[k] = 32 /\ \A j \in 1..(k - 1) : line[j] # 32
    ELSE 0

error_kind(code) ==
    CASE code = <<69, 82, 82>> -> Kind("ResponseError")
      [] code = <<69, 88, 69, 67, 65, 66, 79, 82, 84>> -> Kind("ExecAbortError")
      [] code = <<76, 79, 65, 68, 73, 78, 71>> -> Kind("BusyLoadingError")
      [] code = <<78, 79, 83, 67, 82, 73, 80, 84>> -> Kind("NoScriptError")
      [] OTHER -> ExtensionError(code)

\* the two pieces of splitn(2, ' ') with the space at index sp (0: one piece)
piece_first(line, sp) == IF sp = 0 THEN line ELSE SubSeq(line, 1, sp - 1)
piece_second(line, sp) == IF sp = 0 THEN <<>> ELSE << SubSeq(line, sp + 1, Len(line)) >>

\* the rest of parse_error once the line is split
error_of(line, sp, pos) ==
    Err(RedisError(error_kind(piece_first(line, sp)),
                   "An error was signaled by the server", piece_second(line, sp)), pos)

parse_error(rd, p) ==
    Try(read_string_line(rd, p),
        LAMBDA line : error_of(line.val, first_space(line.val), line.pos))

RECURSIVE parse_value(_, _)
RECURSIVE parse_bulk_loop(_, _, _, _)

\* a loop that returns what it has decoded when an element fails
parse_bulk_loop_partial(rd, p, left, rv) ==
    IF left = 0 THEN Ok(Bulk(rv), p)
    ELSE With(parse_value(rd, p),
              LAMBDA v : IF ~v.ok THEN Ok(Bulk(rv), v.pos)
                         ELSE parse_bulk_loop(rd, v.pos, left - 1, Append(rv, v.val)))

\* the for loop of parse_bulk_value: left elements still to decode into rv
parse_bulk_loop(rd, p, left, rv) ==
    IF left = 0 THEN Ok(Bulk(rv), p)
    ELSE Try(parse_value(rd, p),
             LAMBDA v : parse_bulk_loop(rd, v.pos, left - 1, Append(rv, v.val)))

\* an array decoder that takes a length of zero for Nil too
parse_bulk_value_zero_nil(rd, p) ==
    Try(read_int_value(rd, p),
        LAMBDA length : IF length.val <= 0 THEN Ok(Nil, length.pos)
                        ELSE parse_bulk_loop(rd, length.pos, length.val, <<>>))

parse_bulk_value(rd, p) ==
    Try(read_int_value(rd, p),
        LAMBDA length : IF length.val < 0 THEN Ok(Nil, length.pos)
                        ELSE parse_bulk_loop(rd, length.pos, length.val, <<>>))

parse_value(rd, p) ==
    Try(read_byte(rd, p),
        LAMBDA byte :
            CASE byte.val = 43 -> parse_status_value(rd, byte.pos)
              [] byte.val = 45 -> parse_error(rd, byte.pos)
              [] byte.val = 58 -> parse_int_value(rd, byte.pos)
              [] byte.val = 36 -> parse_data_value(rd, byte.pos)
              [] byte.val = 42 -> parse_bulk_value(rd, byte.pos)
              [] OTHER -> Err(RedisError(Kind("ResponseError"),
                                         "Invalid response when parsing value", <<>>),
                              byte.pos))

\* Parser::new(Cursor::new(bytes)): a Cursor hands out all it is asked for and never fails
CursorReader(bytes) == [bytes |-> bytes, chunk |-> Len(bytes) + 1, failAt |-> 0 - 1]

parse_redis_value(bytes) == parse_value(CursorReader(bytes), 0)

(***************************************************************************)
(* The values the builder is driven with.                                  *)
(***************************************************************************)
ArgValues ==
    { I64(42), I64(0 - 7),
      U8(0), U8(65), U8(255),
      Bool(TRUE),
      Str(<<83, 69, 84>>),                                   \* "SET"
      Str(<<>>),
      Str(<<104, 101, 108, 108, 111, 44, 32, 114, 101, 100, 105, 115>>), \* "hello, redis"
      None, Some(I64(1)),
      Vec("int", <<>>), Vec("int", <<I64(1), I64(2)>>),
      Vec("int", [i \in 1..10 |-> I64(i)]),
      Vec("u8", <<>>), Vec("u8", <<U8(13), U8(10), U8(255)>>),
      Vec("opt", <<Some(I64(1)), None>>),
      Tuple(<<I64(42)>>),
      Tuple(<<Str(<<>>), Str(<<13, 10>>)>>),                 \* ("", "\r\n")
      Tuple(<<Vec("int", <<I64(1), I64(2)>>)>>), Tuple(<<None>>) }

CursorValues == {0, 42, 12345}

(***************************************************************************)
(* Cmd: one action per method.                                             *)
(***************************************************************************)
\* op: the method called; some, out: the bytes returned, if any; c: the cursor used;
\* cap: the capacity reserved for out
Ret(op, some, out, c, cap) == [op |-> op, some |-> some, out |-> out, c |-> c, cap |-> cap]

\* Cmd::new(); no Parser is at work
CmdInit ==
    /\ args = <<>>
    /\ cursor = <<>>
    /\ is_ignored = FALSE
    /\ ret = Ret("new", FALSE, <<>>, 0, 0)
    /\ built = <<>>
    /\ lastArg = <<>>
    /\ argCalls = 0
    /\ cursorCalls = 0
    /\ reader = [bytes |-> <<>>, pos |-> 0, chunk |-> 1, failAt |-> 0 - 1]
    /\ results = <<>>
    /\ replies = <<>>

\* Cmd.args after Cmd::arg pushed the blocks of v
arg_push(as, v) ==
    as \o [i \in 1..Len(to_redis_args(v)) |-> Simple(to_redis_args(v)[i])]

Block(b) == [cur |-> FALSE, b |-> b, c |-> 0]
Placeholder(c) == [cur |-> TRUE, b |-> <<>>, c |-> c]

arg(v) ==
    /\ argCalls + cursorCalls < MaxCalls
    /\ args' = arg_push(args, v)
    /\ built' = built \o [i \in 1..Len(to_redis_args(v)) |-> Block(to_redis_args(v)[i])]
    /\ lastArg' = <<v>>
    /\ argCalls' = argCalls + 1
    /\ ret' = Ret("arg", FALSE, <<>>, 0, 0)
    /\ UNCHANGED <<cursor, is_ignored, cursorCalls>>

\* a cursor_arg that refuses a second placeholder
cursor_arg_once(c) ==
    /\ argCalls + cursorCalls < MaxCalls
    /\ cursor' = <<c>>
    /\ args' = IF cursor = <<>> THEN Append(args, Cursor) ELSE args
    /\ built' = Append(built, Placeholder(c))
    /\ cursorCalls' = cursorCalls + 1
    /\ lastArg' = <<>>
    /\ ret' = Ret("cursor_arg", FALSE, <<>>, c, 0)
    /\ UNCHANGED <<is_ignored, argCalls>>

cursor_arg(c) ==
    /\ argCalls + cursorCalls < MaxCalls
    /\ cursor' = <<c>>
    /\ args' = Append(args, Cursor)
    /\ built' = Append(built, Placeholder(c))
    /\ cursorCalls' = cursorCalls + 1
    /\ lastArg' = <<>>
    /\ ret' = Ret("cursor_arg", FALSE, <<>>, c, 0)
    /\ UNCHANGED <<is_ignored, argCalls>>

get_packed_command ==
    /\ ret' = Ret("get_packed_command", TRUE,
                  encode_commands(args, unwrap_or(cursor, 0)), unwrap_or(cursor, 0),
                  totlen(args, unwrap_or(cursor, 0)))
    /\ UNCHANGED <<args, cursor, is_ignored, built, lastArg, argCalls, cursorCalls>>

\* a re-serialization that keeps the cursor it was given
get_packed_command_with_cursor_store(c) ==
    /\ ret' = IF ~in_scan_mode
              THEN Ret("get_packed_command_with_cursor", FALSE, <<>>, c, 0)
              ELSE Ret("get_packed_command_with_cursor", TRUE, encode_commands(args, c), c,
                       totlen(args, c))
    /\ cursor' = IF in_scan_mode THEN <<c>> ELSE cursor
    /\ UNCHANGED <<args, is_ignored, built, lastArg, argCalls, cursorCalls>>

get_packed_command_with_cursor(c) ==
    /\ ret' = IF ~in_scan_mode
              THEN Ret("get_packed_command_with_cursor", FALSE, <<>>, c, 0)
              ELSE Ret("get_packed_command_with_cursor", TRUE, encode_commands(args, c), c,
                       totlen(args, c))
    /\ UNCHANGED <<args, cursor, is_ignored, built, lastArg, argCalls, cursorCalls>>

CmdNext ==
    \/ \E v \in ArgValues : arg(v) /\ UNCHANGED parserVars
    \/ \E c \in CursorValues : cursor_arg(c) /\ UNCHANGED parserVars
    \/ get_packed_command /\ UNCHANGED parserVars
    \/ \E c \in CursorValues : get_packed_command_with_cursor(c) /\ UNCHANGED parserVars

SpecCmd == CmdInit /\ [][CmdNext]_vars

(***************************************************************************)
(* The command grammar, written out and read back.                         *)
(*   command  := "*" decimal(argc) CRLF argument*                          *)
(*   argument := "$" decimal(len) CRLF bytes(len) CRLF                     *)
(***************************************************************************)
Digit(d) == 48 + d

\* the decimal text of n, most significant digit first, for n < 100000
Decimal(n) ==
    LET ds == << (n \div 10000) % 10, (n \div 1000) % 10, (n \div 100) % 10,
                 (n \div 10) % 10, n % 10 >>
        lead == IF n = 0 THEN 5
                ELSE CHOOSE i \in 1..5 : ds[i] # 0 /\ \A j \in 1..(i - 1) : ds[j] = 0
    IN [i \in 1..(6 - lead) |-> Digit(ds[lead + i - 1])]

WireArgument(b) == <<36>> \o Decimal(Len(b)) \o <<13, 10>> \o b \o <<13, 10>>

WireCommand(bs) ==
    <<42>> \o Decimal(Len(bs)) \o <<13, 10>>
           \o Flatten([i \in 1..Len(bs) |-> WireArgument(bs[i])])

Slice(s, from, to) == [i \in 1..(to - from + 1) |-> s[from + i - 1]]

IsDigitAt(s, p) == p <= Len(s) /\ s[p] >= 48 /\ s[p] <= 57

RECURSIVE ReadDecimal(_, _, _, _)
\* reads the digits of s from index p on: [n |-> their value, p |-> index after them, k |-> count]
ReadDecimal(s, p, n, k) ==
    IF IsDigitAt(s, p) THEN ReadDecimal(s, p + 1, 10 * n + (s[p] - 48), k + 1)
    ELSE [n |-> n, p |-> p, k |-> k]

CrlfAt(s, p) == p + 1 <= Len(s) /\ s[p] = 13 /\ s[p + 1] = 10

NoTokens == [ok |-> FALSE, blocks |-> <<>>]

RECURSIVE TokenizeArguments(_, _, _, _)
TokenizeArguments(s, p, left, acc) ==
    IF left = 0
    THEN (IF p = Len(s) + 1 THEN [ok |-> TRUE, blocks |-> acc] ELSE NoTokens)
    ELSE IF ~(p <= Len(s) /\ s[p] = 36) THEN NoTokens
    ELSE LET d == ReadDecimal(s, p + 1, 0, 0)
             from == d.p + 2
             to == d.p + 1 + d.n
         IN IF d.k = 0 \/ ~CrlfAt(s, d.p) \/ ~CrlfAt(s, to + 1) THEN NoTokens
            ELSE TokenizeArguments(s, to + 3, left - 1, Append(acc, Slice(s, from, to)))

\* the blocks of a command's wire form, read by the grammar
Tokenize(s) ==
    IF ~(1 <= Len(s) /\ s[1] = 42) THEN NoTokens
    ELSE LET d == ReadDecimal(s, 2, 0, 0)
         IN IF d.k = 0 \/ ~CrlfAt(s, d.p) THEN NoTokens
            ELSE TokenizeArguments(s, d.p + 2, d.n, <<>>)

\* the block each appended item is rendered as, the placeholders with cursor cur
Rendered(bl, cur) ==
    [i \in 1..Len(bl) |-> IF bl[i].cur THEN Decimal(cur) ELSE bl[i].b]

\* the same, each placeholder with the cursor its own cursor_arg call gave
RenderedStored(bl) ==
    [i \in 1..Len(bl) |-> IF bl[i].cur THEN Decimal(bl[i].c) ELSE bl[i].b]

NumCursors(as) == Cardinality({i \in DOMAIN as : as[i].tag = "Cursor"})

(***************************************************************************)
(* C1: a Cmd built by arg calls alone serializes to '*' decimal(n) CRLF    *)
(* followed by '$' decimal(len) CRLF block CRLF for each block the         *)
(* conversions yielded, in call order, and nothing else; reading the       *)
(* output back by the grammar gives exactly those blocks.                  *)
(***************************************************************************)
C1_PackedIsGrammar ==
    (ret.op = "get_packed_command" /\ cursorCalls = 0) =>
        /\ ret.out = WireCommand(Rendered(built, 0))
        /\ Tokenize(ret.out) = [ok |-> TRUE, blocks |-> Rendered(built, 0)]

C1_Witness ==
    /\ ret.op = "get_packed_command"
    /\ cursorCalls = 0
    /\ Len(built) >= 10
    /\ \E i \in DOMAIN built : built[i].b = <<>>
    /\ \E i \in DOMAIN built : \E j \in DOMAIN built[i].b : built[i].b[j] = 13
    /\ Tokenize(ret.out).ok

(***************************************************************************)
(* C7: on a Cmd built by arg calls and one cursor_arg(c0) call,            *)
(* get_packed_command_with_cursor(c) returns the wire form with the        *)
(* decimal text of c at the cursor position and every other argument as    *)
(* get_packed_command encodes it; the call changes neither the stored      *)
(* cursor nor the arguments, so get_packed_command emits c0 afterwards as  *)
(* before; on a Cmd without cursor_arg call it returns None.               *)
(***************************************************************************)
C7_WithCursorResult ==
    /\ (ret.op = "get_packed_command_with_cursor" /\ cursorCalls = 0) => ~ret.some
    /\ (ret.op = "get_packed_command_with_cursor" /\ cursorCalls = 1) =>
          /\ ret.some
          /\ ret.out = WireCommand(Rendered(built, ret.c))
    /\ (ret.op = "get_packed_command" /\ cursorCalls = 1) =>
          ret.out = WireCommand(RenderedStored(built))

C7_WithCursorKeepsCmd ==
    (ret'.op = "get_packed_command_with_cursor") =>
        (cursor' = cursor /\ args' = args)

C7_CursorReserialization == [](C7_WithCursorResult) /\ [][C7_WithCursorKeepsCmd]_vars

C7_Witness ==
    /\ ret.op = "get_packed_command_with_cursor"
    /\ cursorCalls = 1
    /\ argCalls = 1
    /\ ret.some
    /\ ret.c = 12345
    /\ cursor = <<42>>
    /\ args[1].tag = "Cursor"

(***************************************************************************)
(* C8 as stated: arg(b) for a u8 b appends one block holding the byte b    *)
(* itself.                                                                 *)
(***************************************************************************)
C8_U8Verbatim ==
    (lastArg # <<>> /\ lastArg[1].k = "u8") =>
        (Len(args) >= 1 /\ args[Len(args)] = Simple(<<lastArg[1].n>>))

LastBytes(s, k) == IF k > Len(s) THEN <<>> ELSE Slice(s, Len(s) - k + 1, Len(s))

(***************************************************************************)
(* C8 amended: for every u8 b, to_redis_args yields exactly one block,     *)
(* the decimal text of b (one to three digits); arg(b) appends that block  *)
(* and the packed command ends with '$' decimal(len) CRLF decimal(b) CRLF. *)
(***************************************************************************)
C8_U8Decimal ==
    /\ \A b \in (IF args = <<>> THEN 0..255 ELSE {}) :
          to_redis_args(U8(b)) = << Decimal(b) >>
    /\ (lastArg # <<>> /\ lastArg[1].k = "u8") =>
          /\ Len(args) >= 1
          /\ args[Len(args)] = Simple(Decimal(lastArg[1].n))
          /\ ret.op = "get_packed_command" =>
                LET w == WireArgument(Decimal(lastArg[1].n))
                IN LastBytes(ret.out, Len(w)) = w

C8_Witness ==
    /\ lastArg = << U8(255) >>
    /\ ret.op = "get_packed_command"
    /\ LastBytes(ret.out, 9) = <<36, 51, 13, 10, 50, 53, 53, 13, 10>>

(***************************************************************************)
(* C9 as stated: is_single_arg(v) is true exactly when to_redis_args(v)    *)
(* yields exactly one block.                                               *)
(***************************************************************************)
C9_SingleIffOneBlock ==
    lastArg # <<>> =>
        (is_single_arg(lastArg[1]) <=> (Len(to_redis_args(lastArg[1])) = 1))

(***************************************************************************)
(* C10 as stated: the argument list holds at most one cursor placeholder.  *)
(***************************************************************************)
C10_AtMostOneCursor == NumCursors(args) <= 1

(***************************************************************************)
(* C10 amended: the argument list holds exactly one cursor placeholder     *)
(* per cursor_arg call made (so at most one as long as cursor_arg was      *)
(* called at most once), and the Cmd is in scan mode exactly when it holds *)
(* one or more.                                                            *)
(***************************************************************************)
C10_CursorPerCall ==
    /\ NumCursors(args) = cursorCalls
    /\ in_scan_mode <=> (NumCursors(args) >= 1)

C10_Witness ==
    /\ cursorCalls = 2
    /\ NumCursors(args) = 2
    /\ ret.op = "get_packed_command"

\* the values encode_commands counted the digits of when it sized the buffer:
\* the number of arguments, the length of every block, and for every placeholder
\* the cursor and the length taken for its text
CountedValues ==
    {Len(args)}
      \cup {Len(args[i].v) : i \in {j \in 1..Len(args) : args[j].tag = "Simple"}}
      \cup {ret.c : i \in {j \in 1..Len(args) : args[j].tag = "Cursor"}}
      \cup {countdigits(ret.c) : i \in {j \in 1..Len(args) : args[j].tag = "Cursor"}}

\* C11: whenever a command has been packed, countdigits gave, for every value it
\* was applied to while sizing the buffer, the length of the decimal string of
\* that value (no leading zeros), a count of 1 for the value 0 included.
C11_DigitCount ==
    ret.some =>
        \A v \in CountedValues :
            /\ countdigits(v) = Len(to_string(v))
            /\ v = 0 => countdigits(v) = 1

(***************************************************************************)
(* The replies a source is filled with.  A reply is a record               *)
(*   [f |-> form, n |-> number, b |-> bytes, items |-> sequence of reply]  *)
(* f: "status" and "error" (b is the line), "int" (n), "data" (b is the    *)
(* payload), "nildata" and "nilarray" (n is the negative length), "array"  *)
(* (items), "raw" (b is sent as it is: a malformed reply).                 *)
(***************************************************************************)
StatusR(line) == [f |-> "status", n |-> 0, b |-> line, items |-> <<>>]
ErrorR(line) == [f |-> "error", n |-> 0, b |-> line, items |-> <<>>]
IntR(n) == [f |-> "int", n |-> n, b |-> <<>>, items |-> <<>>]
DataR(b) == [f |-> "data", n |-> 0, b |-> b, items |-> <<>>]
NilDataR(n) == [f |-> "nildata", n |-> n, b |-> <<>>, items |-> <<>>]
NilArrayR(n) == [f |-> "nilarray", n |-> n, b |-> <<>>, items |-> <<>>]
ArrayR(items) == [f |-> "array", n |-> 0, b |-> <<>>, items |-> items]
RawR(b) == [f |-> "raw", n |-> 0, b |-> b, items |-> <<>>]

SignedDecimal(n) == IF n < 0 THEN <<45>> \o Decimal(0 - n) ELSE Decimal(n)

RECURSIVE Wire(_)
\* the bytes of a reply
Wire(r) ==
    CASE r.f = "status" -> <<43>> \o r.b \o <<13, 10>>
      [] r.f = "error" -> <<45>> \o r.b \o <<13, 10>>
      [] r.f = "int" -> <<58>> \o SignedDecimal(r.n) \o <<13, 10>>
      [] r.f = "data" -> <<36>> \o Decimal(Len(r.b)) \o <<13, 10>> \o r.b \o <<13, 10>>
      [] r.f = "nildata" -> <<36>> \o SignedDecimal(r.n) \o <<13, 10>>
      [] r.f = "nilarray" -> <<42>> \o SignedDecimal(r.n) \o <<13, 10>>
      [] r.f = "array" -> <<42>> \o Decimal(Len(r.items)) \o <<13, 10>>
                          \o Flatten([i \in 1..Len(r.items) |-> Wire(r.items[i])])
      [] r.f = "raw" -> r.b

RECURSIVE Decodable(_)
\* a well-formed reply that stands for a value
Decodable(r) ==
    /\ r.f \notin {"error", "raw"}
    /\ \A i \in DOMAIN r.items : Decodable(r.items[i])

RECURSIVE Decoded(_)
\* the value a decodable reply stands for
Decoded(r) ==
    CASE r.f = "status" -> IF r.b = <<79, 75>> THEN Okay ELSE Status(r.b)
      [] r.f = "int" -> IntV(r.n)
      [] r.f = "data" -> Data(r.b)
      [] r.f = "array" -> Bulk([i \in 1..Len(r.items) |-> Decoded(r.items[i])])
      [] OTHER -> Nil

StatusLines ==
    { <<79, 75>>,                       \* "OK"
      <<80, 79, 78, 71>>,               \* "PONG"
      <<>>,
      <<79, 75, 32>>,                   \* "OK "
      <<111, 107>>,                     \* "ok"
      <<195, 169>> }                    \* U+00E9

ErrorLines ==
    { <<69, 82, 82, 32, 120, 32, 121>>,                  \* "ERR x y"
      <<69, 82, 82>>,                                    \* "ERR"
      <<69, 82, 82, 32>>,                                \* "ERR "
      <<69, 88, 69, 67, 65, 66, 79, 82, 84, 32, 97>>,    \* "EXECABORT a"
      <<76, 79, 65, 68, 73, 78, 71>>,                    \* "LOADING"
      <<78, 79, 83, 67, 82, 73, 80, 84, 32, 110>>,       \* "NOSCRIPT n"
      <<87, 82, 79, 78, 71, 84, 89, 80, 69, 32, 98, 97, 100, 32, 111, 112>>, \* "WRONGTYPE bad op"
      <<32, 120>>,                                       \* " x"
      <<>>,
      <<101, 114, 114, 32, 120>>,                        \* "err x"
      <<69, 82, 82, 120>> }                              \* "ERRx"

Payloads ==
    { <<>>, <<102, 111, 111>>, <<13, 10>>, <<255, 0>>,
      <<104, 101, 108, 108, 111, 44, 32, 114, 101, 100, 105, 115>> }

Malformed ==
    { <<63>>,                                            \* "?"
      <<58, 97, 98, 99, 13, 10>>,                        \* ":abc\r\n"
      <<36, 49, 13, 10, 97, 88, 89>>,                    \* "$1\r\naXY"
      <<36, 49, 13, 10, 97, 13, 88>>,                    \* "$1\r\na\rX"
      <<36, 51, 13, 10, 97, 98>>,                        \* "$3\r\nab"
      <<43, 79, 75>>,                                    \* "+OK"
      <<43, 255, 13, 10>>,                               \* "+\xFF\r\n"
      <<43, 97, 13, 98, 13, 10>>,                        \* "+a\rb\r\n"
      <<42, 49, 13, 10>>,                                \* "*1\r\n"
      <<36, 120, 13, 10>>,                               \* "$x\r\n"
      <<45, 69, 82, 82, 13>>,                            \* "-ERR\r"
      <<58, 49, 50, 10>>,                                \* ":12\n"
      <<58, 32, 49, 50, 32, 13, 10>>,                    \* ": 12 \r\n"
      <<58, 43, 53, 13, 10>>,                            \* ":+5\r\n"
      <<58>> \o I64MinDigits \o <<13, 10>>,              \* ":9223372036854775808\r\n"
      <<36, 49, 50, 104, 101, 108, 108, 111, 13, 10>> }  \* "$12hello\r\n"

Leaves ==
    {StatusR(l) : l \in StatusLines} \cup {ErrorR(l) : l \in ErrorLines}
    \cup {IntR(n) : n \in {12, 0, 0 - 3, 1000}} \cup {DataR(b) : b \in Payloads}
    \cup {NilDataR(n) : n \in {0 - 1, 0 - 12}} \cup {NilArrayR(n) : n \in {0 - 1, 0 - 2}}
    \cup {RawR(b) : b \in Malformed}

\* the elements the arrays are made of
Elements ==
    { IntR(12), DataR(<<102, 111, 111>>),
      ErrorR(<<69, 82, 82, 32, 120, 32, 121>>), RawR(<<58, 97, 98, 99, 13, 10>>),
      RawR(<<63>>) }

ArraysOver(E) == UNION {{ArrayR(t) : t \in [1..k -> E]} : k \in 0..MaxItems}

NestedElements ==
    { ArrayR(<<>>), NilArrayR(0 - 1),
      ArrayR(<<IntR(12), DataR(<<13, 10>>)>>),
      ArrayR(<<ErrorR(<<69, 82, 82>>), IntR(12)>>) }

Deep ==
    { ArrayR(<<ArrayR(<<ArrayR(<<IntR(12), StatusR(<<80, 79, 78, 71>>)>>), DataR(<<>>)>>)>>),
      ArrayR(<<IntR(0), ArrayR(<<ArrayR(<<IntR(12), RawR(<<63>>), IntR(0)>>), IntR(12)>>),
               IntR(12)>>),
      ArrayR([i \in 1..10 |-> IntR(i)]),
      ArrayR(<<IntR(1), IntR(2), IntR(3), IntR(4),
               DataR(<<102, 111, 111, 98, 97, 114>>)>>),
      ArrayR(<<StatusR(<<79, 75>>), NilDataR(0 - 1), RawR(<<36, 49, 13, 10, 97, 88, 89>>),
               IntR(12)>>),
      ArrayR(<<ArrayR(<<IntR(12), RawR(<<>>)>>), IntR(12)>>),
      ArrayR(<<IntR(12), RawR(<<36, 51, 13, 10, 97, 98>>)>>),
      ArrayR(<<IntR(12), RawR(<<>>)>>) }

ReplySet == Leaves \cup ArraysOver(Elements) \cup ArraysOver(NestedElements) \cup Deep

\* the replies that come before the last one of a source
Leading == { IntR(12), NilDataR(0 - 1), ArrayR(<<DataR(<<13, 10>>), NilArrayR(0 - 1)>>) }

Sources ==
    UNION {{lead \o last : lead \in [1..k -> Leading],
                           last \in {<<>>} \cup {<<r>> : r \in ReplySet}}
           : k \in 0..(MaxReplies - 1)}

\* the offsets at which a transport breaks
FailOffsets == {0, 5}

(***************************************************************************)
(* Parser: Parser::new over a filled source, then parse_value calls.       *)
(***************************************************************************)
\* Parser::new(reader) over a filled source; the Cmd is left as Cmd::new() made it
ParserInit ==
    /\ args = <<>>
    /\ cursor = <<>>
    /\ is_ignored = FALSE
    /\ ret = Ret("new", FALSE, <<>>, 0, 0)
    /\ built = <<>>
    /\ lastArg = <<>>
    /\ argCalls = 0
    /\ cursorCalls = 0
    /\ replies \in Sources
    /\ \E chunk \in {1, MaxChunk}, failAt \in {0 - 1} \cup FailOffsets :
          reader = [bytes |-> Flatten([i \in 1..Len(replies) |-> Wire(replies[i])]),
                    pos |-> 0, chunk |-> chunk, failAt |-> failAt]
    /\ results = <<>>

\* one call of Parser::parse_value
parse_value_call ==
    /\ Len(results) < MaxParses
    /\ results' = Append(results, parse_value(reader, reader.pos))
    /\ reader' = [reader EXCEPT !.pos = parse_value(reader, reader.pos).pos]
    /\ UNCHANGED replies

ParserNext == parse_value_call /\ UNCHANGED cmdVars

SpecParser == ParserInit /\ [][ParserNext]_vars

(***************************************************************************)
(* Where the replies lie in the source.                                    *)
(***************************************************************************)
RECURSIVE WireLen(_, _)
\* the length of the bytes of the first k of the replies rs
WireLen(rs, k) == IF k = 0 THEN 0 ELSE WireLen(rs, k - 1) + Len(Wire(rs[k]))

\* the offset at which reply k starts, and the one at which it ends
StartOf(k) == WireLen(replies, k - 1)
EndOf(k) == WireLen(replies, k)

\* the transport does not break before offset p
NoBreakBefore(p) == reader.failAt < 0 \/ reader.failAt >= p

AllDecodable(k) == k <= Len(replies) /\ \A j \in 1..k : Decodable(replies[j])

(***************************************************************************)
(* C2: parse_redis_value on exactly the bytes of a well-formed reply       *)
(* returns Ok with the value the reply stands for: Okay for '+OK', Status  *)
(* of the line for any other '+' line, Int(n) for ':' decimal, Data of the *)
(* n payload bytes for '$' n, Bulk of the decoded elements in order for    *)
(* '*' n, at any nesting depth.                                            *)
(***************************************************************************)
C2_DecodesWellFormed ==
    (Len(results) >= 1 /\ AllDecodable(1)) =>
        LET r == replies[1]
            want == Ok(Decoded(r), Len(Wire(r)))
        IN /\ parse_redis_value(Wire(r)) = want
           /\ NoBreakBefore(EndOf(1)) => results[1] = want

C2_Witness ==
    /\ Len(results) >= 1
    /\ Len(replies) = 1
    /\ replies[1] = ArrayR(<<ArrayR(<<ArrayR(<<IntR(12), StatusR(<<80, 79, 78, 71>>)>>),
                                      DataR(<<>>)>>)>>)
    /\ results[1].ok
    /\ results[1].val.items[1].items[1].items[2] = Status(<<80, 79, 78, 71>>)

(***************************************************************************)
(* C3: a '-' reply never decodes to a value: parse_value returns an error  *)
(* with desc "An error was signaled by the server", the kind given by the  *)
(* text before the first space of the line (ERR, EXECABORT, LOADING,       *)
(* NOSCRIPT, any other code as ExtensionError of that code) and as detail  *)
(* the text after the first space, absent when the line has no space.      *)
(***************************************************************************)
RECURSIVE CodeOf(_)
\* the text before the first space
CodeOf(line) ==
    IF line = <<>> \/ Head(line) = 32 THEN <<>> ELSE <<Head(line)>> \o CodeOf(Tail(line))

RECURSIVE DetailOf(_)
\* the text after the first space, as an Option
DetailOf(line) ==
    IF line = <<>> THEN <<>>
    ELSE IF Head(line) = 32 THEN <<Tail(line)>> ELSE DetailOf(Tail(line))

KindOf(code) ==
    IF code = <<69, 82, 82>> THEN Kind("ResponseError")
    ELSE IF code = <<69, 88, 69, 67, 65, 66, 79, 82, 84>> THEN Kind("ExecAbortError")
    ELSE IF code = <<76, 79, 65, 68, 73, 78, 71>> THEN Kind("BusyLoadingError")
    ELSE IF code = <<78, 79, 83, 67, 82, 73, 80, 84>> THEN Kind("NoScriptError")
    ELSE ExtensionError(code)

C3_ErrorReply ==
    \A k \in 1..Len(results) :
        (k <= Len(replies) /\ replies[k].f = "error" /\ AllDecodable(k - 1)
           /\ NoBreakBefore(EndOf(k))) =>
            /\ ~results[k].ok
            /\ results[k].val = NoValue
            /\ results[k].err = RedisError(KindOf(CodeOf(replies[k].b)),
                                           "An error was signaled by the server",
                                           DetailOf(replies[k].b))
            /\ parse_redis_value(Wire(replies[k])).err = results[k].err

C3_Witness ==
    /\ Len(results) = 2
    /\ Len(replies) = 2
    /\ replies[2] = ErrorR(<<69, 82, 82, 32, 120, 32, 121>>)
    /\ results[1].ok
    /\ results[2].err.kind = Kind("ResponseError")
    /\ results[2].err.detail = << <<120, 32, 121>> >>

(***************************************************************************)
(* C4: the decoder takes from the source exactly the bytes of the value it *)
(* decodes: on a source holding well-formed replies one after the other,   *)
(* the i-th parse_value call returns the i-th value and leaves the source  *)
(* at the end of the i-th reply; a negative-length bulk string or array    *)
(* takes only its length line.                                             *)
(***************************************************************************)
C4_NoReadAhead ==
    \A i \in 1..Len(results) :
        (AllDecodable(i) /\ NoBreakBefore(EndOf(i))) =>
            results[i] = Ok(Decoded(replies[i]), EndOf(i))

C4_Witness ==
    /\ Len(results) = 2
    /\ replies = << NilDataR(0 - 1), ArrayR(<<NilArrayR(0 - 1), ArrayR(<<>>)>>) >>
    /\ results[1] = Ok(Nil, 5)
    /\ results[2].ok
    /\ results[2].pos = Len(reader.bytes)
    /\ reader.chunk = 1

(***************************************************************************)
(* C5: when element i of an array reply fails to decode, parse_value       *)
(* returns the error of that element, stops reading where that element's   *)
(* decoding stopped, and returns no Bulk of the elements before i; so it   *)
(* does when the transport breaks inside the array; a Bulk that is         *)
(* returned holds every element of the array.                              *)
(***************************************************************************)
\* the index of the first element that does not stand for a value, 0 if none
FirstBad(items) ==
    IF \A i \in DOMAIN items : Decodable(items[i]) THEN 0
    ELSE CHOOSE i \in DOMAIN items :
            ~Decodable(items[i]) /\ \A j \in 1..(i - 1) : Decodable(items[j])

HeaderLen(n) == 1 + Len(Decimal(n)) + 2

\* a decoding that failed before the end of its bytes
FailsInside(res) ==
    /\ ~res.ok
    /\ res.err.desc \notin {"Could not read enough bytes", "Could not read enought bytes"}

C5_AllOrNothing ==
    \A k \in 1..Len(results) :
        /\ (k <= Len(replies) /\ replies[k].f = "array" /\ AllDecodable(k - 1)
              /\ NoBreakBefore(Len(reader.bytes) + 1) /\ FirstBad(replies[k].items) > 0) =>
             LET items == replies[k].items
                 i == FirstBad(items)
                 alone == parse_redis_value(Wire(items[i]))
                 at == StartOf(k) + HeaderLen(Len(items)) + WireLen(items, i - 1)
             IN (~alone.ok /\ (FailsInside(alone) \/ (k = Len(replies) /\ i = Len(items)))) =>
                    /\ results[k] = Err(alone.err, at + alone.pos)
                    /\ results[k].pos <= at + Len(Wire(items[i]))
        /\ (AllDecodable(k) /\ replies[k].f = "array"
              /\ reader.failAt >= 0 /\ reader.failAt < EndOf(k)) =>
             results[k].val = NoValue /\ results[k].err = IoErrorOf(TransportDescription)
        /\ (k <= Len(replies) /\ replies[k].f = "array" /\ AllDecodable(k - 1)
              /\ results[k].ok) =>
             /\ results[k].val.t = "Bulk"
             /\ Len(results[k].val.items) = Len(replies[k].items)

C5_Witness ==
    /\ Len(results) >= 1
    /\ replies = << ArrayR(<<IntR(0),
                            ArrayR(<<ArrayR(<<IntR(12), RawR(<<63>>), IntR(0)>>), IntR(12)>>),
                            IntR(12)>>) >>
    /\ ~results[1].ok
    /\ results[1].err.desc = "Invalid response when parsing value"
    /\ results[1].pos = 22
    /\ Len(reader.bytes) = 36

(***************************************************************************)
(* C6: a bulk string and an array of negative length decode to Nil; a      *)
(* length of zero does not: '*0' CRLF decodes to Bulk of no elements and   *)
(* '$0' CRLF CRLF to Data of no bytes.                                     *)
(***************************************************************************)
C6_NilAndEmpty ==
    /\ \A n \in (IF results = <<>> /\ replies = <<>> THEN 1..130 ELSE {}) :
          /\ parse_redis_value(Wire(NilDataR(0 - n))) = Ok(Nil, Len(Wire(NilDataR(0 - n))))
          /\ parse_redis_value(Wire(NilArrayR(0 - n))) = Ok(Nil, Len(Wire(NilArrayR(0 - n))))
    /\ parse_redis_value(<<42, 48, 13, 10>>) = Ok(Bulk(<<>>), 4)
    /\ parse_redis_value(<<36, 48, 13, 10, 13, 10>>) = Ok(Data(<<>>), 6)
    /\ \A k \in 1..Len(results) :
          (AllDecodable(k) /\ NoBreakBefore(EndOf(k))) =>
              /\ replies[k].f \in {"nildata", "nilarray"} => results[k].val = Nil
              /\ replies[k] \in {ArrayR(<<>>), DataR(<<>>)} =>
                    (results[k].ok /\ results[k].val # Nil)
              /\ replies[k] = ArrayR(<<>>) => results[k].val = Bulk(<<>>)
              /\ replies[k] = DataR(<<>>) => results[k].val = Data(<<>>)

C6_Witness ==
    /\ Len(results) = 2
    /\ replies = << NilDataR(0 - 1), ArrayR(<<>>) >>
    /\ results[1].val = Nil
    /\ results[2].val = Bulk(<<>>)

====
